---- MODULE Spec2Model ----
(***************************************************************************)
(* A model of the MSweep heap (src/hotspot/share/gc/msweep/msweepHeap.cpp) *)
(* and of MSweepArguments::initialize: the allocation path                 *)
(* (allocate_work, allocate_or_collect_work, mem_allocate,                 *)
(* allocate_new_tlab), the VM operation VM_MSweepGC, the collection cycle  *)
(* (prologue, mark, sweep, epilogue) and the cause dispatch of collect.    *)
(*                                                                         *)
(* Sizes and addresses are in heap words.  An object is a start address    *)
(* with a size and one reference field; the free list is a sequence of     *)
(* (start, size) nodes.  MSweepFreeListSpace, MarkBitMap and the os::      *)
(* commit primitives are not part of the sources at hand and are modelled  *)
(* from their description.                                                 *)
(***************************************************************************)
EXTENDS Integers, Sequences, FiniteSets, TLC

\* ------------------------------------------------------------------ bounds
\* Number of mutator (Java) threads.
NMutators == 2
\* Words of the committed region.
HeapWords == 8
\* Largest size, in words, a mutator asks mem_allocate for.
MaxAllocWords == 2
\* Largest min_size / requested_size handed to allocate_new_tlab.
MaxTlabArg == 7
\* Largest configured MSweepMaxTLABSize, in units of 4 bytes.
MaxTlabConfig == 20
\* Scaled-down stand-in for the int[] limit behind CollectedHeap::max_tlab_size().
MaxIntArrayWords == 9
\* Largest configured MinTLABSize, in units of 8 bytes.
MaxMinTlabConfig == 4

\* ------------------------------------------------------- program constants
\* Bytes per heap word.
HeapWordSize == 8
\* Object alignment in words (ObjectAlignmentInBytes = 16).
MinObjAlignment == 2
\* Smallest chunk the free list hands out or takes back, in words.
MinChunkSize == 4

NULL == -1
Mutators == 1..NMutators
Addr == 0..(HeapWords - 1)
AllocSizes == {s \in 1..MaxAllocWords : s % MinObjAlignment = 0}

\* GCCause values that reach MSweepHeap::collect.
MetadataCauses == {"_metadata_GC_threshold", "_metadata_GC_clear_soft_refs"}
FullCycleCauses == {"_java_lang_system_gc", "_allocation_failure"}
OtherCauses == {"_wb_young_gc", "_heap_dump"}
Causes == MetadataCauses \cup FullCycleCauses \cup OtherCauses

VARIABLES
    objs,             \* objects of the free-list space: start |-> [size, ref]
    free_list,        \* MSweepFreeList: sequence of [start, size]
    roots,            \* addresses held by the roots do_roots walks
    mark_bits,        \* _mark_bitmap: addresses whose live bit is set
    bitmap_committed, \* whether _bitmap_region is backed by memory
    stack,            \* MSweepMarkStack of the running mark()
    phase,            \* position of the collector inside entry_collect
    parsable,         \* ensure_parsability(true) ran in the current cycle
    vm,               \* "running" | "crashed" | "exited"
    Heap_lock,        \* 0 when free, else the thread that holds it
    pc,               \* position of each mutator in its allocation call
    req,              \* the call in flight: [kind, size, min, requested]
    res,              \* HeapWord* res of allocate_or_collect_work
    actual_size,      \* the caller's *actual_size of allocate_new_tlab
    attempts,         \* allocate_work calls made by the call in flight
    cycles,           \* collection cycles run for the call in flight
    first_res,        \* result of the first allocate_work of the call
    fit_after,        \* a chunk fitted the request when the cycle ended
    ExitOnOutOfMemoryError, \* the flag as MSweepArguments::initialize left it
    _max_tlab_size,   \* MSweepHeap::_max_tlab_size
    cyc_objs,         \* objs at the start of the running cycle
    cyc_free,         \* free_list at the start of the running cycle
    last_collect,     \* the last collect(cause) call: [entry, cause, sized, phases]
    args,             \* the TLAB flags: [configured, MinTLABSize, MSweepMaxTLABSize, warned]
    gc_log,           \* warnings logged by the running (or last) cycle
    os_res,           \* results of os::commit_memory / os::uncommit_memory in that cycle
    mark_start,       \* the live bits as mark() found them
    pushes            \* the objects the running mark() has pushed, in order

heapvars == <<objs, free_list, roots, mark_bits, bitmap_committed, stack,
              phase, parsable, cyc_objs, cyc_free>>
thrvars == <<Heap_lock, pc, req, res, actual_size, attempts, cycles,
             first_res, fit_after>>
cfgvars == <<ExitOnOutOfMemoryError, _max_tlab_size, args>>
logvars == <<gc_log, os_res, mark_start, pushes>>
vars == <<heapvars, thrvars, cfgvars, logvars, vm, last_collect>>

\* ----------------------------------------------------------------- helpers
Min(a, b) == IF a <= b THEN a ELSE b
Max(a, b) == IF a >= b THEN a ELSE b

\* align_up(size, alignment)
align_up(n, a) == ((n + a - 1) \div a) * a
\* align_down(size, alignment)
align_down(n, a) == (n \div a) * a
\* is_object_aligned(size)
is_object_aligned(n) == n % MinObjAlignment = 0
\* align_object_size(size)
align_object_size(n) == align_up(n, MinObjAlignment)
\* clamp(value, min, max)
clamp(v, lo, hi) == Min(Max(v, lo), hi)

\* CollectedHeap::max_tlab_size(): the int[] limit aligned down.
GlobalMaxTlabSize == align_down(MaxIntArrayWords, MinObjAlignment)

\* MSweepFreeList::adjust_chunk_size(size): the words reserved for an object
\* of `size` words, never less than the smallest chunk.
adjust_chunk_size(size) == Max(size, MinChunkSize)

\* The extent [start, start + reserved) of an object or chunk.
Extent(start, size) == start..(start + size - 1)
ObjExtent(o, a) == Extent(a, adjust_chunk_size(o[a].size))

\* Addresses of a set in ascending order, as object_iterate walks the space.
RECURSIVE SortedSeq(_)
SortedSeq(S) ==
    IF S = {} THEN <<>>
    ELSE LET m == CHOOSE x \in S : \A y \in S : x <= y
         IN <<m>> \o SortedSeq(S \ {m})

\* Everything the references lead to from a set of addresses.
RECURSIVE Reach(_, _)
Reach(o, S) ==
    LET N == S \cup ({o[a].ref : a \in S \cap DOMAIN o} \ {NULL})
    IN IF N = S THEN S ELSE Reach(o, N)

\* The objects reachable from the roots through object references.
Reachable(o, r) == Reach(o, r) \cap DOMAIN o

\* ------------------------------------------------------ MSweepArguments
\* How ExitOnOutOfMemoryError can stand on the command line.
FlagSettings ==
    { [is_default |-> TRUE,  value |-> FALSE],
      [is_default |-> FALSE, value |-> TRUE],
      [is_default |-> FALSE, value |-> FALSE] }

\* MSweepArguments::initialize, the ExitOnOutOfMemoryError part:
\* FLAG_SET_DEFAULT(..., true) only when the flag is still at its default.
InitializeExitFlag(f) == IF f.is_default THEN TRUE ELSE f.value

\* MinTLABSize in bytes (scaled down with the heap).
MinTLABSize == 16
\* MSweepMaxTLABSize values, in bytes, a command line may give.
ConfiguredMaxTLABSizes == {4 * k : k \in 0..MaxTlabConfig}
\* The value the main specification runs with.
DefaultMaxTLABSize == 32

\* MinTLABSize values, in bytes, a command line may give.
ConfiguredMinTLABSizes == {8 * k : k \in 1..MaxMinTlabConfig}

\* The comparison passes and the warning is logged, but the assignment
\* MSweepMaxTLABSize = MinTLABSize is left out.
InitializeTlabFlagNoAssign(maxt, mint) ==
    IF maxt < mint
    THEN [value |-> maxt, warned |-> TRUE]
    ELSE [value |-> maxt, warned |-> FALSE]

\* MSweepArguments::initialize, the MSweepMaxTLABSize part: below MinTLABSize
\* the flag is raised to it and a warning is logged.
InitializeTlabFlag(maxt, mint) ==
    IF maxt < mint
    THEN [value |-> mint, warned |-> TRUE]
    ELSE [value |-> maxt, warned |-> FALSE]

\* The same for the MinTLABSize the main specification runs with.
InitializeMaxTLABSize(maxt) == InitializeTlabFlag(maxt, MinTLABSize).value

\* The flags as MSweepArguments::initialize leaves them.
InitializedArgs(maxt, mint) ==
    [configured |-> maxt, MinTLABSize |-> mint,
     MSweepMaxTLABSize |-> InitializeTlabFlag(maxt, mint).value,
     warned |-> InitializeTlabFlag(maxt, mint).warned]

\* _max_tlab_size computed without align_object_size.
HeapInitializeMaxTlabUnaligned(bytes) ==
    Min(GlobalMaxTlabSize, bytes \div HeapWordSize)

\* MSweepHeap::initialize: _max_tlab_size in words.
HeapInitializeMaxTlab(bytes) ==
    Min(GlobalMaxTlabSize, align_object_size(bytes \div HeapWordSize))

\* ------------------------------------------------- MSweepFreeListSpace
\* A chunk serves a request when it has the room and what is left over is
\* nothing or a chunk of its own.
Fits(node, need) ==
    /\ node.size >= need
    /\ (node.size - need = 0 \/ node.size - need >= MinChunkSize)

\* Index of the first chunk of the free list that serves `need`, 0 if none.
FitIndex(fl, need) ==
    LET S == {i \in 1..Len(fl) : Fits(fl[i], need)}
    IN IF S = {} THEN 0 ELSE CHOOSE i \in S : \A j \in S : i <= j

\* The free list after carving `need` words out of chunk i.
Carve(fl, i, need) ==
    IF fl[i].size = need
    THEN SubSeq(fl, 1, i - 1) \o SubSeq(fl, i + 1, Len(fl))
    ELSE [fl EXCEPT ![i] = [start |-> fl[i].start + need,
                            size |-> fl[i].size - need]]

\* MSweepFreeListSpace::allocate(size): first fit; NULL when no chunk fits.
SpaceAllocate(fl, size) ==
    LET need == adjust_chunk_size(size)
        i == FitIndex(fl, need)
    IN IF i = 0 THEN [addr |-> NULL, fl |-> fl]
       ELSE [addr |-> fl[i].start, fl |-> Carve(fl, i, need)]

\* -------------------------------------------------------------- Init
InitState ==
    /\ objs = <<>>
    /\ free_list = << [start |-> 0, size |-> HeapWords] >>
    /\ roots = {}
    /\ mark_bits = {}
    /\ bitmap_committed = FALSE
    /\ stack = <<>>
    /\ phase = "Idle"
    /\ parsable = FALSE
    /\ Heap_lock = 0
    /\ pc = [t \in Mutators |-> "run"]
    /\ req = [t \in Mutators |-> [kind |-> "none", size |-> 0, min |-> 0, requested |-> 0]]
    /\ res = [t \in Mutators |-> NULL]
    /\ actual_size = [t \in Mutators |-> 0]
    /\ attempts = [t \in Mutators |-> 0]
    /\ cycles = [t \in Mutators |-> 0]
    /\ first_res = [t \in Mutators |-> NULL]
    /\ fit_after = [t \in Mutators |-> FALSE]
    /\ cyc_objs = <<>>
    /\ cyc_free = <<>>
    /\ last_collect = [entry |-> "none", cause |-> "none", sized |-> 0, phases |-> 0]
    /\ gc_log = {}
    /\ os_res = [commit |-> "none", uncommit |-> "none"]
    /\ mark_start = {}
    /\ pushes = <<>>

\* The heap as MSweepHeap::initialize leaves it, the VM running.
InitCommon ==
    /\ InitState
    /\ vm = "running"

\* The VM as started with any setting of ExitOnOutOfMemoryError.
Init ==
    /\ InitCommon
    /\ args = InitializedArgs(DefaultMaxTLABSize, MinTLABSize)
    /\ \E f \in FlagSettings : ExitOnOutOfMemoryError = InitializeExitFlag(f)
    /\ _max_tlab_size = HeapInitializeMaxTlab(InitializeMaxTLABSize(DefaultMaxTLABSize))

\* The VM as started with any configured MSweepMaxTLABSize and
\* -XX:-ExitOnOutOfMemoryError, so that it runs on after an exhaustion.
\* Of the flag the running VM keeps _max_tlab_size only; args holds the
\* flag value that is this many words.
InitTlab ==
    /\ InitCommon
    /\ ExitOnOutOfMemoryError = InitializeExitFlag([is_default |-> FALSE, value |-> FALSE])
    /\ \E bytes \in ConfiguredMaxTLABSizes :
         _max_tlab_size = HeapInitializeMaxTlab(InitializeMaxTLABSize(bytes))
    /\ args = InitializedArgs(_max_tlab_size * HeapWordSize, MinTLABSize)

\* The VM before MSweepArguments::initialize, with the flags as any command
\* line sets them; no heap has been constructed yet.
InitArgs ==
    /\ InitState
    /\ vm = "starting"
    /\ _max_tlab_size = 0
    /\ \E f \in FlagSettings, maxt \in ConfiguredMaxTLABSizes,
          mint \in ConfiguredMinTLABSizes :
         /\ ExitOnOutOfMemoryError = f
         /\ args = [configured |-> maxt, MinTLABSize |-> mint,
                    MSweepMaxTLABSize |-> maxt, warned |-> FALSE]

\* MSweepArguments::initialize: ExitOnOutOfMemoryError is set when it is still
\* at its default; MSweepMaxTLABSize is raised to MinTLABSize when below it.
\* No path of it ends the VM.
ArgumentsInitialize ==
    /\ vm = "starting"
    /\ ExitOnOutOfMemoryError' = InitializeExitFlag(ExitOnOutOfMemoryError)
    /\ LET r == InitializeTlabFlag(args.MSweepMaxTLABSize, args.MinTLABSize)
       IN args' = [args EXCEPT !.MSweepMaxTLABSize = r.value, !.warned = r.warned]
    /\ vm' = "configured"
    /\ UNCHANGED <<heapvars, thrvars, logvars, _max_tlab_size, last_collect>>

\* ------------------------------------------------------- allocation path
\* Mutators run only outside a safepoint and while the VM is alive.
MutatorsRun == vm = "running" /\ phase = "Idle"

NoRequest == [kind |-> "none", size |-> 0, min |-> 0, requested |-> 0]

\* A mutator enters mem_allocate(size, ...).
CallMem(t) ==
    /\ MutatorsRun
    /\ pc[t] = "run"
    /\ \E size \in AllocSizes :
         req' = [req EXCEPT ![t] = [kind |-> "mem", size |-> size,
                                    min |-> 0, requested |-> 0]]
    /\ pc' = [pc EXCEPT ![t] = "first"]
    /\ attempts' = [attempts EXCEPT ![t] = 0]
    /\ cycles' = [cycles EXCEPT ![t] = 0]
    /\ actual_size' = [actual_size EXCEPT ![t] = 0]
    /\ UNCHANGED <<heapvars, cfgvars, logvars, vm, last_collect, Heap_lock, res,
                   first_res, fit_after>>

\* allocate_new_tlab, up to the call of allocate_or_collect_work: the size
\* asked of the heap.
TlabSize(min_size, requested_size, max) ==
    align_up(clamp(requested_size, min_size, max), MinObjAlignment)

\* A mutator enters allocate_new_tlab(min_size, requested_size, &actual_size).
\* The caller's *actual_size is what the call before left in it.
CallTlab(t) ==
    /\ MutatorsRun
    /\ pc[t] = "run"
    /\ \E min_size \in 0..MaxTlabArg, requested_size \in 0..MaxTlabArg :
         req' = [req EXCEPT ![t] =
                   [kind |-> "tlab",
                    size |-> TlabSize(min_size, requested_size, _max_tlab_size),
                    min |-> min_size, requested |-> requested_size]]
    /\ pc' = [pc EXCEPT ![t] = "first"]
    /\ attempts' = [attempts EXCEPT ![t] = 0]
    /\ cycles' = [cycles EXCEPT ![t] = 0]
    /\ UNCHANGED <<heapvars, cfgvars, logvars, vm, last_collect, Heap_lock, res,
                   actual_size, first_res, fit_after>>

\* allocate_new_tlab stores *actual_size without looking at the result.
AllocateWorkAlwaysWrites(t) ==
    LET r == SpaceAllocate(free_list, req[t].size)
    IN /\ res' = [res EXCEPT ![t] = r.addr]
       /\ free_list' = r.fl
       /\ attempts' = [attempts EXCEPT ![t] = @ + 1]
       /\ actual_size' = IF req[t].kind = "tlab"
                         THEN [actual_size EXCEPT ![t] = req[t].size]
                         ELSE actual_size
       /\ IF r.addr = NULL
          THEN UNCHANGED <<objs, roots>>
          ELSE /\ objs' = [a \in DOMAIN objs \cup {r.addr} |->
                             IF a = r.addr
                             THEN [size |-> req[t].size, ref |-> NULL]
                             ELSE objs[a]]
               /\ roots' = roots \cup {r.addr}

\* allocate_work(size): one attempt on the free-list space.  The memory
\* handed out becomes an object held by the allocating thread.  When the
\* attempt is the last of the call, allocate_new_tlab stores *actual_size
\* on success before it returns.
AllocateWork(t) ==
    LET r == SpaceAllocate(free_list, req[t].size)
    IN /\ res' = [res EXCEPT ![t] = r.addr]
       /\ free_list' = r.fl
       /\ attempts' = [attempts EXCEPT ![t] = @ + 1]
       /\ actual_size' = IF req[t].kind = "tlab" /\ r.addr # NULL
                         THEN [actual_size EXCEPT ![t] = req[t].size]
                         ELSE actual_size
       /\ IF r.addr = NULL
          THEN UNCHANGED <<objs, roots>>
          ELSE /\ objs' = [a \in DOMAIN objs \cup {r.addr} |->
                             IF a = r.addr
                             THEN [size |-> req[t].size, ref |-> NULL]
                             ELSE objs[a]]
               /\ roots' = roots \cup {r.addr}

\* allocate_or_collect_work, first attempt: on NULL go on to vmentry_collect.
FirstAttempt(t) ==
    /\ MutatorsRun
    /\ pc[t] = "first"
    /\ AllocateWork(t)
    /\ first_res' = [first_res EXCEPT ![t] = res'[t]]
    /\ pc' = [pc EXCEPT ![t] = IF res'[t] = NULL THEN "lock" ELSE "ret"]
    /\ UNCHANGED <<mark_bits, bitmap_committed, stack, phase, parsable,
                   cyc_objs, cyc_free, cfgvars, logvars, vm, last_collect, Heap_lock,
                   req, cycles, fit_after>>

\* doit_prologue without the lock: the operation is queued at once.
DoitPrologueNoLock(t) ==
    /\ MutatorsRun
    /\ pc[t] = "lock"
    /\ Heap_lock' = t
    /\ pc' = [pc EXCEPT ![t] = "queued"]
    /\ UNCHANGED <<heapvars, cfgvars, logvars, vm, last_collect, req, res, actual_size,
                   attempts, cycles, first_res, fit_after>>

\* VM_MSweepGC::doit_prologue in the requesting thread: Heap_lock->lock().
DoitPrologue(t) ==
    /\ MutatorsRun
    /\ pc[t] = "lock"
    /\ Heap_lock = 0
    /\ Heap_lock' = t
    /\ pc' = [pc EXCEPT ![t] = "queued"]
    /\ UNCHANGED <<heapvars, cfgvars, logvars, vm, last_collect, req, res, actual_size,
                   attempts, cycles, first_res, fit_after>>

\* VM_MSweepGC::doit_epilogue in the requesting thread: Heap_lock->unlock().
DoitEpilogue(t) ==
    /\ MutatorsRun
    /\ pc[t] = "unlock"
    /\ Heap_lock' = 0
    /\ pc' = [pc EXCEPT ![t] = "retry"]
    /\ UNCHANGED <<heapvars, cfgvars, logvars, vm, last_collect, req, res, actual_size,
                   attempts, cycles, first_res, fit_after>>

\* The retry written as a loop: a failed retry asks for another cycle.
RetryLoop(t) ==
    /\ MutatorsRun
    /\ pc[t] = "retry"
    /\ AllocateWork(t)
    /\ pc' = [pc EXCEPT ![t] = IF res'[t] = NULL THEN "lock" ELSE "ret"]
    /\ UNCHANGED <<mark_bits, bitmap_committed, stack, phase, parsable,
                   cyc_objs, cyc_free, cfgvars, logvars, vm, last_collect, Heap_lock,
                   req, cycles, first_res, fit_after>>

\* allocate_or_collect_work, after vmentry_collect: the one further attempt,
\* whose result is returned.
Retry(t) ==
    /\ MutatorsRun
    /\ pc[t] = "retry"
    /\ AllocateWork(t)
    /\ pc' = [pc EXCEPT ![t] = "ret"]
    /\ UNCHANGED <<mark_bits, bitmap_committed, stack, phase, parsable,
                   cyc_objs, cyc_free, cfgvars, logvars, vm, last_collect, Heap_lock,
                   req, cycles, first_res, fit_after>>

\* The caller of mem_allocate / allocate_new_tlab takes the result: an
\* address is used; NULL is an OutOfMemoryError, on which the VM exits when
\* ExitOnOutOfMemoryError is set and throws to the Java code otherwise.
Return(t) ==
    /\ MutatorsRun
    /\ pc[t] = "ret"
    /\ IF res[t] = NULL
       THEN /\ pc' = [pc EXCEPT ![t] = "oom"]
            /\ vm' = IF ExitOnOutOfMemoryError THEN "exited" ELSE vm
            /\ UNCHANGED <<req, res, attempts, cycles, first_res, fit_after>>
       ELSE /\ pc' = [pc EXCEPT ![t] = "run"]
            /\ req' = [req EXCEPT ![t] = NoRequest]
            /\ res' = [res EXCEPT ![t] = NULL]
            /\ attempts' = [attempts EXCEPT ![t] = 0]
            /\ cycles' = [cycles EXCEPT ![t] = 0]
            /\ first_res' = [first_res EXCEPT ![t] = NULL]
            /\ fit_after' = [fit_after EXCEPT ![t] = FALSE]
            /\ vm' = vm
    /\ UNCHANGED <<heapvars, cfgvars, logvars, last_collect, Heap_lock, actual_size>>

\* The Java code catches the OutOfMemoryError and runs on.
HandleOOM(t) ==
    /\ MutatorsRun
    /\ pc[t] = "oom"
    /\ pc' = [pc EXCEPT ![t] = "run"]
    /\ req' = [req EXCEPT ![t] = NoRequest]
    /\ res' = [res EXCEPT ![t] = NULL]
    /\ attempts' = [attempts EXCEPT ![t] = 0]
    /\ cycles' = [cycles EXCEPT ![t] = 0]
    /\ first_res' = [first_res EXCEPT ![t] = NULL]
    /\ fit_after' = [fit_after EXCEPT ![t] = FALSE]
    /\ UNCHANGED <<heapvars, cfgvars, logvars, vm, last_collect, Heap_lock, actual_size>>

\* ------------------------------------------------------------ mutator code
\* Java code stores a reference it holds into an object it holds.
StoreRef ==
    /\ MutatorsRun
    /\ \E t \in Mutators : pc[t] = "run"
    /\ \E a \in Reachable(objs, roots), b \in Reachable(objs, roots) \cup {NULL} :
         /\ objs[a].ref # b
         /\ objs' = [objs EXCEPT ![a].ref = b]
    /\ UNCHANGED <<free_list, roots, mark_bits, bitmap_committed, stack, phase,
                   parsable, cyc_objs, cyc_free, thrvars, cfgvars, logvars, vm,
                   last_collect>>

\* Java code lets go of a root (a local goes out of scope).
DropRoot ==
    /\ MutatorsRun
    /\ \E t \in Mutators : pc[t] = "run"
    /\ \E a \in roots : roots' = roots \ {a}
    /\ UNCHANGED <<objs, free_list, mark_bits, bitmap_committed, stack, phase,
                   parsable, cyc_objs, cyc_free, thrvars, cfgvars, logvars, vm,
                   last_collect>>

\* ------------------------------------------------------------ the cycle
\* The thread whose VM_MSweepGC the VM thread is executing: it holds
\* Heap_lock and waits in VMThread::execute.
OpThreads == {t \in Mutators : pc[t] = "queued" /\ Heap_lock = t}

\* Where a mutator can be halted: in Java code, blocked on Heap_lock or
\* waiting in VMThread::execute.  A thread inside the allocation path runs
\* on to one of these before the safepoint is reached.
SafepointSafe(t) == pc[t] \in {"run", "oom", "lock", "queued"}

\* entry_collect entered as soon as the operation is queued, without waiting
\* for the other mutators to reach a safepoint.
SafepointBeginNoSync ==
    /\ vm = "running"
    /\ phase = "Idle"
    /\ OpThreads # {}
    /\ phase' = "Prologue"
    /\ parsable' = FALSE
    /\ cyc_objs' = objs
    /\ cyc_free' = free_list
    /\ gc_log' = {}
    /\ os_res' = [commit |-> "none", uncommit |-> "none"]
    /\ UNCHANGED <<objs, free_list, roots, mark_bits, bitmap_committed, stack,
                   thrvars, cfgvars, mark_start, pushes, vm, last_collect>>

\* VMThread::execute: the VM thread takes the queued operation and brings
\* the mutators to a safepoint; doit() calls entry_collect.
SafepointBegin ==
    /\ vm = "running"
    /\ phase = "Idle"
    /\ OpThreads # {}
    /\ \A t \in Mutators : SafepointSafe(t)
    /\ phase' = "Prologue"
    /\ parsable' = FALSE
    /\ cyc_objs' = objs
    /\ cyc_free' = free_list
    /\ gc_log' = {}
    /\ os_res' = [commit |-> "none", uncommit |-> "none"]
    /\ UNCHANGED <<objs, free_list, roots, mark_bits, bitmap_committed, stack,
                   thrvars, cfgvars, mark_start, pushes, vm, last_collect>>

\* MSweepHeap::prologue: commit the live bitmap; on failure return at once
\* (nothing is logged), else retire the TLABs.  Committing a region that is
\* still committed (an earlier uncommit failed) keeps or zeroes its contents,
\* as the platform has it.
Prologue ==
    /\ vm = "running"
    /\ phase = "Prologue"
    /\ \/ /\ bitmap_committed' = TRUE
          /\ \/ mark_bits' = {}
             \/ bitmap_committed /\ mark_bits' = mark_bits
          /\ parsable' = TRUE
          /\ os_res' = [os_res EXCEPT !.commit = "ok"]
       \/ /\ os_res' = [os_res EXCEPT !.commit = "failed"]
          /\ UNCHANGED <<bitmap_committed, mark_bits, parsable>>
    /\ phase' = "MarkRoots"
    /\ UNCHANGED <<objs, free_list, roots, stack, cyc_objs, cyc_free, thrvars,
                   cfgvars, gc_log, mark_start, pushes, vm, last_collect>>

\* The closure marks a newly found object but does not push it.
do_oop_workNoPush(m, obj) ==
    IF obj \in m.bits THEN m
    ELSE [bits |-> m.bits \cup {obj}, stk |-> m.stk]

\* The closure marks and pushes without testing the bit first.
do_oop_workNoTest(m, obj) ==
    [bits |-> m.bits \cup {obj}, stk |-> Append(m.stk, obj)]

\* ScanOopClosure::do_oop_work on a non-null reference: test the bit; when
\* unset, set it and push the object.
do_oop_work(m, obj) ==
    IF obj \in m.bits THEN m
    ELSE [bits |-> m.bits \cup {obj}, stk |-> Append(m.stk, obj)]

\* The closure applied to a sequence of reference slots (NULL slots skipped).
RECURSIVE ScanOops(_, _)
ScanOops(m, slots) ==
    IF slots = <<>> THEN m
    ELSE ScanOops(IF Head(slots) = NULL THEN m ELSE do_oop_work(m, Head(slots)),
                  Tail(slots))

\* mark(), first part: do_roots applies the closure to every root.  A read
\* of the bitmap while its region is not committed faults.
MarkRoots ==
    /\ vm = "running"
    /\ phase = "MarkRoots"
    /\ IF roots # {} /\ ~bitmap_committed
       THEN /\ vm' = "crashed"
            /\ UNCHANGED <<mark_bits, stack, phase, mark_start, pushes>>
       ELSE LET m == ScanOops([bits |-> mark_bits, stk |-> stack],
                              SortedSeq(roots))
            IN /\ mark_bits' = m.bits
               /\ stack' = m.stk
               /\ mark_start' = mark_bits
               /\ pushes' = m.stk
               /\ phase' = "MarkLoop"
               /\ vm' = vm
    /\ UNCHANGED <<objs, free_list, roots, bitmap_committed, parsable,
                   cyc_objs, cyc_free, thrvars, cfgvars, gc_log, os_res,
                   last_collect>>

\* mark(), one turn of the loop: pop an object and oop_iterate it.  An
\* address that no longer holds an object (it was swept while referenced)
\* reads as an object without references, or the walk faults.
MarkStep ==
    /\ vm = "running"
    /\ phase = "MarkLoop"
    /\ stack # <<>>
    /\ LET obj == stack[Len(stack)]
           rest == SubSeq(stack, 1, Len(stack) - 1)
       IN \/ /\ obj \in DOMAIN objs
             /\ LET m == ScanOops([bits |-> mark_bits, stk |-> rest],
                                  <<objs[obj].ref>>)
                IN /\ mark_bits' = m.bits
                   /\ stack' = m.stk
                   /\ pushes' = pushes \o SubSeq(m.stk, Len(rest) + 1, Len(m.stk))
             /\ vm' = vm
          \/ /\ obj \notin DOMAIN objs
             /\ stack' = rest
             /\ UNCHANGED <<mark_bits, pushes, vm>>
          \/ /\ obj \notin DOMAIN objs
             /\ vm' = "crashed"
             /\ UNCHANGED <<mark_bits, stack, pushes>>
    /\ UNCHANGED <<objs, free_list, roots, bitmap_committed, phase, parsable,
                   cyc_objs, cyc_free, thrvars, cfgvars, gc_log, os_res,
                   mark_start, last_collect>>

\* mark() returns when the stack is empty.
MarkDone ==
    /\ vm = "running"
    /\ phase = "MarkLoop"
    /\ stack = <<>>
    /\ phase' = "Sweep"
    /\ pushes' = <<>>
    /\ UNCHANGED <<objs, free_list, roots, mark_bits, bitmap_committed, stack,
                   parsable, cyc_objs, cyc_free, thrvars, cfgvars, gc_log,
                   os_res, mark_start, vm, last_collect>>

\* The node made with obj->size() as it stands, not the adjusted size.
SweepObjectRawSize(w, obj) ==
    IF obj \in w.bits THEN w
    ELSE [w EXCEPT !.dead = @ \cup {obj},
                   !.fl = Append(@, [start |-> obj, size |-> w.objs[obj].size])]

\* The closure with its test turned round: the marked objects are freed.
SweepObjectMarked(w, obj) ==
    IF obj \notin w.bits THEN w
    ELSE [w EXCEPT !.dead = @ \cup {obj},
                   !.fl = Append(@, [start |-> obj,
                                     size |-> adjust_chunk_size(w.objs[obj].size)])]

\* SweepClosure::do_object: an object whose bit is unset becomes a node of
\* adjust_chunk_size(obj->size()) words appended to the free list.
SweepObject(w, obj) ==
    IF obj \in w.bits THEN w
    ELSE [w EXCEPT !.dead = @ \cup {obj},
                   !.fl = Append(@, [start |-> obj,
                                     size |-> adjust_chunk_size(w.objs[obj].size)])]

\* object_iterate: the closure applied to the objects in address order.
RECURSIVE SweepWalk(_, _)
SweepWalk(w, order) ==
    IF order = <<>> THEN w
    ELSE SweepWalk(SweepObject(w, Head(order)), Tail(order))

\* MSweepHeap::sweep.  The objects turned into chunks are no longer objects
\* of the space.
Sweep ==
    /\ vm = "running"
    /\ phase = "Sweep"
    /\ IF DOMAIN objs # {} /\ ~bitmap_committed
       THEN /\ vm' = "crashed"
            /\ UNCHANGED <<objs, free_list, phase, mark_start>>
       ELSE LET w == SweepWalk([objs |-> objs, fl |-> free_list,
                                bits |-> mark_bits, dead |-> {}],
                               SortedSeq(DOMAIN objs))
            IN /\ free_list' = w.fl
               /\ objs' = [a \in DOMAIN objs \ w.dead |-> objs[a]]
               /\ mark_start' = {}
               /\ phase' = "Epilogue"
               /\ vm' = vm
    /\ UNCHANGED <<roots, mark_bits, bitmap_committed, stack, parsable,
                   cyc_objs, cyc_free, thrvars, cfgvars, gc_log, os_res,
                   pushes, last_collect>>

\* The end of a cycle also releases the threads that wait on Heap_lock for
\* a cycle of their own: they go straight to their retry.
EpilogueReusesCycle ==
    /\ vm = "running"
    /\ phase = "Epilogue"
    /\ \/ /\ bitmap_committed' = FALSE
          /\ mark_bits' = {}
          /\ os_res' = [os_res EXCEPT !.uncommit = "ok"]
          /\ gc_log' = gc_log
       \/ /\ bitmap_committed
          /\ os_res' = [os_res EXCEPT !.uncommit = "failed"]
          /\ gc_log' = gc_log \cup {"Could not uncommit native memory for marking bitmap"}
          /\ UNCHANGED <<bitmap_committed, mark_bits>>
    /\ phase' = "Idle"
    /\ pc' = [t \in Mutators |-> IF t \in OpThreads THEN "unlock"
                                  ELSE IF pc[t] = "lock" THEN "retry" ELSE pc[t]]
    /\ cycles' = [t \in Mutators |-> IF t \in OpThreads THEN cycles[t] + 1
                                     ELSE cycles[t]]
    /\ fit_after' = [t \in Mutators |->
                       IF t \in OpThreads
                       THEN FitIndex(free_list, adjust_chunk_size(req[t].size)) # 0
                       ELSE fit_after[t]]
    /\ cyc_objs' = <<>>
    /\ cyc_free' = <<>>
    /\ UNCHANGED <<objs, free_list, roots, stack, parsable, Heap_lock, req,
                   res, actual_size, attempts, first_res, cfgvars, mark_start,
                   pushes, vm, last_collect>>

\* epilogue returns without having given the bitmap's storage back.
EpilogueKeepsBitmap ==
    /\ vm = "running"
    /\ phase = "Epilogue"
    /\ os_res' = [os_res EXCEPT !.uncommit = "ok"]
    /\ phase' = "Idle"
    /\ pc' = [t \in Mutators |-> IF t \in OpThreads THEN "unlock" ELSE pc[t]]
    /\ cycles' = [t \in Mutators |-> IF t \in OpThreads THEN cycles[t] + 1
                                     ELSE cycles[t]]
    /\ fit_after' = [t \in Mutators |->
                       IF t \in OpThreads
                       THEN FitIndex(free_list, adjust_chunk_size(req[t].size)) # 0
                       ELSE fit_after[t]]
    /\ cyc_objs' = <<>>
    /\ cyc_free' = <<>>
    /\ UNCHANGED <<objs, free_list, roots, stack, parsable, Heap_lock, req,
                   res, actual_size, attempts, first_res, cfgvars, mark_start,
                   pushes, vm, last_collect, bitmap_committed, mark_bits,
                   gc_log>>

\* MSweepHeap::epilogue: uncommit the live bitmap; a failure is logged and
\* leaves the region and its bits as they are.  entry_collect returns, the
\* safepoint ends and the requesting thread goes on to doit_epilogue.
Epilogue ==
    /\ vm = "running"
    /\ phase = "Epilogue"
    /\ \/ /\ bitmap_committed' = FALSE
          /\ mark_bits' = {}
          /\ os_res' = [os_res EXCEPT !.uncommit = "ok"]
          /\ gc_log' = gc_log
       \/ /\ bitmap_committed
          /\ os_res' = [os_res EXCEPT !.uncommit = "failed"]
          /\ gc_log' = gc_log \cup {"Could not uncommit native memory for marking bitmap"}
          /\ UNCHANGED <<bitmap_committed, mark_bits>>
    /\ phase' = "Idle"
    /\ pc' = [t \in Mutators |-> IF t \in OpThreads THEN "unlock" ELSE pc[t]]
    /\ cycles' = [t \in Mutators |-> IF t \in OpThreads THEN cycles[t] + 1
                                     ELSE cycles[t]]
    /\ fit_after' = [t \in Mutators |->
                       IF t \in OpThreads
                       THEN FitIndex(free_list, adjust_chunk_size(req[t].size)) # 0
                       ELSE fit_after[t]]
    /\ cyc_objs' = <<>>
    /\ cyc_free' = <<>>
    /\ UNCHANGED <<objs, free_list, roots, stack, parsable, Heap_lock, req,
                   res, actual_size, attempts, first_res, cfgvars, mark_start,
                   pushes, vm, last_collect>>

\* ------------------------------------------------------------- collect
\* The switch sends a metadata cause into a collection cycle as well.
CollectMetadataCycle(entry, cause) ==
    /\ last_collect' = [entry |-> entry, cause |-> cause, sized |-> 1, phases |-> 4]
    /\ phase' = "Prologue"
    /\ cyc_objs' = objs
    /\ cyc_free' = free_list
    /\ UNCHANGED <<objs, free_list, roots, mark_bits, bitmap_committed, stack,
                   parsable, thrvars, cfgvars, logvars, vm>>

\* collect(cause), the two metadata causes: log, MetaspaceGC::compute_new_size().
CollectMetadata(entry, cause) ==
    /\ last_collect' = [entry |-> entry, cause |-> cause, sized |-> 1, phases |-> 0]
    /\ UNCHANGED <<heapvars, thrvars, cfgvars, logvars, vm>>

\* The default branch runs entry_collect instead of ignoring the request.
CollectDefaultCycle(entry, cause) ==
    /\ last_collect' = [entry |-> entry, cause |-> cause, sized |-> 0, phases |-> 4]
    /\ phase' = "Prologue"
    /\ cyc_objs' = objs
    /\ cyc_free' = free_list
    /\ UNCHANGED <<objs, free_list, roots, mark_bits, bitmap_committed, stack,
                   parsable, thrvars, cfgvars, logvars, vm>>

\* collect(cause), default: log "is ignored".
CollectDefault(entry, cause) ==
    /\ last_collect' = [entry |-> entry, cause |-> cause, sized |-> 0, phases |-> 0]
    /\ UNCHANGED <<heapvars, thrvars, cfgvars, logvars, vm>>

\* MSweepHeap::collect(cause): the switch on the cause.
collect(entry, cause) ==
    IF cause \in MetadataCauses
    THEN CollectMetadata(entry, cause)
    ELSE CollectDefault(entry, cause)

\* A caller (System.gc(), the VM thread at a metadata safepoint) calls collect.
Collect ==
    /\ vm = "running"
    /\ phase = "Idle"
    /\ \E cause \in Causes : collect("collect", cause)

\* do_full_collection(clear_all_soft_refs): collect(gc_cause()).
DoFullCollection ==
    /\ vm = "running"
    /\ phase = "Idle"
    /\ \E gc_cause \in Causes : collect("do_full_collection", gc_cause)

\* ---------------------------------------------------------------- Next
AllocStep(t) ==
    \/ FirstAttempt(t)
    \/ DoitPrologue(t)
    \/ DoitEpilogue(t)
    \/ Retry(t)
    \/ Return(t)
    \/ HandleOOM(t)

CycleStep ==
    \/ SafepointBegin
    \/ Prologue
    \/ MarkRoots
    \/ MarkStep
    \/ MarkDone
    \/ Sweep
    \/ Epilogue

Next ==
    \/ \E t \in Mutators : CallMem(t) \/ AllocStep(t)
    \/ StoreRef
    \/ DropRoot
    \/ CycleStep

Spec == Init /\ [][Next]_vars

\* One mutator that asks for TLABs of every size and lets go of them.
NextTlab ==
    \/ CallTlab(1)
    \/ AllocStep(1)
    \/ DropRoot
    \/ CycleStep

SpecTlab == InitTlab /\ [][NextTlab]_vars

\* One allocating mutator, and callers of collect and do_full_collection.
NextCollect ==
    \/ CallMem(1)
    \/ AllocStep(1)
    \/ StoreRef
    \/ DropRoot
    \/ CycleStep
    \/ Collect
    \/ DoFullCollection

SpecCollect == Init /\ [][NextCollect]_vars

\* ------------------------------------------- allocate, step by step
\* Spec takes a call of the free-list space's allocate as one step.  Nothing
\* in allocate_work, mem_allocate or allocate_new_tlab serializes the
\* mutators, so the call is taken apart here: its scan of the free list,
\* and then its update of the list.

\* allocate_work calls allocate: the scan picks the first chunk that fits.
AllocEnter(t) ==
    /\ MutatorsRun
    /\ pc[t] \in {"first", "retry"}
    /\ LET i == FitIndex(free_list, adjust_chunk_size(req[t].size))
       IN res' = [res EXCEPT ![t] = IF i = 0 THEN NULL ELSE free_list[i].start]
    /\ pc' = [pc EXCEPT ![t] = "inside"]
    /\ UNCHANGED <<heapvars, cfgvars, logvars, vm, last_collect, Heap_lock, req,
                   actual_size, attempts, cycles, first_res, fit_after>>

\* allocate carves the chunk it picked and allocate_work returns.  When
\* another thread has carved that chunk in between, the update works on a
\* node that is no longer what the scan saw: the list stays as it is and the
\* address is handed out again, or the VM faults on the stale node.
AllocLeave(t) ==
    /\ MutatorsRun
    /\ pc[t] = "inside"
    /\ LET need == adjust_chunk_size(req[t].size)
           S == {i \in 1..Len(free_list) :
                   free_list[i].start = res[t] /\ Fits(free_list[i], need)}
           installed == [a \in DOMAIN objs \cup {res[t]} |->
                           IF a = res[t] THEN [size |-> req[t].size, ref |-> NULL]
                           ELSE objs[a]]
           done == /\ attempts' = [attempts EXCEPT ![t] = @ + 1]
                   /\ first_res' = IF attempts[t] = 0
                                   THEN [first_res EXCEPT ![t] = res[t]]
                                   ELSE first_res
                   /\ pc' = [pc EXCEPT ![t] =
                               IF res[t] = NULL /\ attempts[t] = 0
                               THEN "lock" ELSE "ret"]
                   /\ actual_size' = IF req[t].kind = "tlab" /\ res[t] # NULL
                                     THEN [actual_size EXCEPT ![t] = req[t].size]
                                     ELSE actual_size
                   /\ vm' = vm
       IN \/ /\ res[t] = NULL
             /\ done
             /\ UNCHANGED <<objs, roots, free_list>>
          \/ /\ res[t] # NULL
             /\ S # {}
             /\ free_list' = Carve(free_list, CHOOSE i \in S : TRUE, need)
             /\ objs' = installed
             /\ roots' = roots \cup {res[t]}
             /\ done
          \/ /\ res[t] # NULL
             /\ S = {}
             /\ objs' = installed
             /\ roots' = roots \cup {res[t]}
             /\ done
             /\ UNCHANGED free_list
          \/ /\ res[t] # NULL
             /\ S = {}
             /\ vm' = "crashed"
             /\ UNCHANGED <<objs, roots, free_list, attempts, first_res, pc,
                            actual_size>>
    /\ UNCHANGED <<mark_bits, bitmap_committed, stack, phase, parsable,
                   cyc_objs, cyc_free, cfgvars, logvars, last_collect, Heap_lock,
                   req, res, cycles, fit_after>>

\* Two mutators in mem_allocate, each attempt in its two steps.
NextRace ==
    \/ \E t \in Mutators :
          \/ CallMem(t)
          \/ AllocEnter(t)
          \/ AllocLeave(t)
          \/ DoitPrologue(t)
          \/ DoitEpilogue(t)
          \/ Return(t)
          \/ HandleOOM(t)
    \/ DropRoot
    \/ CycleStep

SpecRace == Init /\ [][NextRace]_vars

\* The phases of entry_collect, which the VM thread runs one after another.
PhaseStep == Prologue \/ MarkRoots \/ MarkStep \/ MarkDone \/ Sweep \/ Epilogue

\* Scheduling: a queued operation gets its safepoint although mutators keep
\* leaving and re-entering safe states; the VM thread runs the operation
\* through to its end; a thread inside the allocation path (VM code) runs
\* on to its return.  Java code is under no obligation to take a step.
SpecFair ==
    /\ Spec
    /\ SF_vars(SafepointBegin)
    /\ WF_vars(PhaseStep)
    /\ \A t \in Mutators :
          /\ WF_vars(FirstAttempt(t))
          /\ WF_vars(DoitEpilogue(t))
          /\ WF_vars(Retry(t))
          /\ WF_vars(Return(t))

\* SpecFair with a Heap_lock that does not starve a waiting thread.
SpecFairLock ==
    /\ SpecFair
    /\ \A t \in Mutators : SF_vars(DoitPrologue(t))

\* The start of the VM: argument processing for every command line.
NextArgs == ArgumentsInitialize

SpecArgs == InitArgs /\ [][NextArgs]_vars

\* ================================================================ claims
\* Words covered by the chunks of a free list.
FreeWords(fl) == UNION {Extent(fl[i].start, fl[i].size) : i \in 1..Len(fl)}

\* The objects reachable from the roots when the running cycle began (the
\* mutators are halted, so the roots are those of the start).
LiveAtStart == Reachable(cyc_objs, roots)

\* Chunks the running cycle has appended to the free list.
AppendedStarts ==
    {free_list[i].start : i \in (Len(cyc_free) + 1)..Len(free_list)}

\* C1: live-object safety.  When sweep has run, no object that was reachable
\* from the roots at the start of the cycle has been appended to the free
\* list, and every such object is still an object of the space, unchanged.
C1_LiveObjectsSurvive ==
    phase = "Epilogue" =>
        \A a \in LiveAtStart :
            /\ a \in DOMAIN objs
            /\ objs[a] = cyc_objs[a]
            /\ a \notin AppendedStarts

\* C2: reclamation.  When sweep has run, every word that was occupied by an
\* object not reachable from the roots at the start of the cycle lies inside
\* a chunk of the free list.
C2_DeadObjectsReclaimed ==
    phase = "Epilogue" =>
        \A a \in DOMAIN cyc_objs \ LiveAtStart :
            ObjExtent(cyc_objs, a) \subseteq FreeWords(free_list)

\* C3: retry law.  A call of allocate_or_collect_work makes at most two
\* attempts and triggers at most one cycle; when the first attempt succeeds
\* it returns after that one attempt and no cycle; when it fails, the call
\* returns after exactly one cycle and exactly one further attempt.
C3_RetryLaw ==
    \A t \in Mutators :
        /\ attempts[t] <= 2
        /\ cycles[t] <= 1
        /\ pc[t] \in {"ret", "oom"} =>
              IF first_res[t] # NULL
              THEN attempts[t] = 1 /\ cycles[t] = 0 /\ res[t] = first_res[t]
              ELSE attempts[t] = 2 /\ cycles[t] = 1
        /\ pc[t] \in {"lock", "queued"} => attempts[t] = 1 /\ cycles[t] = 0
        /\ pc[t] \in {"unlock", "retry"} => attempts[t] = 1 /\ cycles[t] = 1

\* A call that failed, ran its cycle and got memory on the retry.
C3_Witness ==
    \E t \in Mutators :
        /\ pc[t] = "ret"
        /\ first_res[t] = NULL
        /\ attempts[t] = 2
        /\ cycles[t] = 1
        /\ res[t] # NULL

\* C4: retry success.  A call whose first attempt failed and whose cycle left
\* a chunk that fits the request returns an address.
C4_RetrySucceedsAfterCycle ==
    \A t \in Mutators :
        (pc[t] = "ret" /\ cycles[t] = 1 /\ fit_after[t]) => res[t] # NULL

\* C5: fatal exhaustion.  Once the attempt after the cycle has failed and
\* the exhaustion is reported, the process has terminated.
C5_ExhaustionTerminates ==
    \A t \in Mutators : pc[t] = "oom" => vm = "exited"

C6_TlabClampLaw ==
    \A t \in Mutators :
        (req[t].kind = "tlab" /\ req[t].min <= _max_tlab_size) =>
            /\ is_object_aligned(req[t].size)
            /\ req[t].min <= req[t].size
            /\ req[t].size <= _max_tlab_size
            /\ req[t].size <= GlobalMaxTlabSize
            /\ _max_tlab_size <= GlobalMaxTlabSize
            /\ req[t].requested < req[t].min =>
                   req[t].size = align_up(req[t].min, MinObjAlignment)
            /\ req[t].requested > _max_tlab_size =>
                   req[t].size = align_up(_max_tlab_size, MinObjAlignment)
            /\ (pc[t] = "ret" /\ res[t] # NULL) => actual_size[t] = req[t].size

\* A successful call whose request lay below an unaligned min_size: the
\* size granted is min_size rounded up.
C6_Witness ==
    \E t \in Mutators :
        /\ pc[t] = "ret"
        /\ res[t] # NULL
        /\ req[t].kind = "tlab"
        /\ req[t].requested < req[t].min
        /\ ~is_object_aligned(req[t].min)
        /\ req[t].min <= _max_tlab_size
        /\ actual_size[t] = req[t].min + 1

\* C8: full-cycle causes.  A call of collect (or of do_full_collection) with
\* an explicit-request or allocation-failure cause has run the four phases
\* of the cycle when it returns.
C8_FullCycleCausesRunCycle ==
    last_collect.cause \in FullCycleCauses => last_collect.phases = 4

\* C9: sizing-only causes.  A call of collect with a metadata cause calls
\* the metaspace sizing routine once, enters no phase of the cycle, and
\* leaves the free list, the objects, the live bitmap and its commit state
\* as they were.
C9_MetadataCausesOnlySize ==
    [][(last_collect' # last_collect /\ last_collect'.cause \in MetadataCauses) =>
          /\ last_collect'.sized = 1
          /\ last_collect'.phases = 0
          /\ phase' = "Idle"
          /\ UNCHANGED <<objs, free_list, mark_bits, bitmap_committed, stack>>]_vars

\* A metadata cause handled on a heap that holds objects, free chunks and a
\* live bitmap left committed with bits set.
C9_Witness ==
    /\ last_collect.cause \in MetadataCauses
    /\ DOMAIN objs # {}
    /\ Len(free_list) >= 1
    /\ bitmap_committed
    /\ mark_bits # {}

\* C10: unrecognized causes.  A call of collect with a cause that is neither
\* a metadata cause nor a full-cycle cause calls neither the sizing routine
\* nor a phase of the cycle and changes nothing of the heap.
C10_OtherCausesNoOp ==
    [][(last_collect' # last_collect /\ last_collect'.cause \in OtherCauses) =>
          /\ last_collect'.sized = 0
          /\ last_collect'.phases = 0
          /\ phase' = "Idle"
          /\ UNCHANGED <<objs, free_list, roots, mark_bits, bitmap_committed,
                         stack, parsable>>]_vars

\* An unrecognized cause ignored on a heap that holds objects and free chunks.
C10_Witness ==
    /\ last_collect.cause \in OtherCauses
    /\ last_collect.entry = "collect"
    /\ DOMAIN objs # {}
    /\ Len(free_list) >= 1

\* C11: stop-the-world.  While a cycle is between the start of prologue and
\* the end of epilogue every mutator is halted outside the allocation path
\* (in Java code, blocked on Heap_lock or waiting for its operation), no
\* allocate_work call is made and no allocation call is entered.
C11_StopTheWorld ==
    [][phase # "Idle" =>
          /\ \A t \in Mutators : SafepointSafe(t)
          /\ attempts' = attempts
          /\ req' = req
          /\ res' = res]_vars

\* A cycle in its sweep while the other mutator, whose own first attempt
\* failed, is held back on Heap_lock.
C11_Witness ==
    /\ phase = "Sweep"
    /\ \E t, u \in Mutators :
           /\ pc[t] = "queued"
           /\ pc[u] = "lock"
           /\ attempts[u] = 1

\* C12: one cycle at a time.  At most one thread is between doit_prologue
\* and doit_epilogue, and it is the holder of Heap_lock; a cycle runs only
\* while the lock is held by the thread whose operation it is; the lock is
\* taken only when free, by a thread entering doit_prologue, and given up
\* only by its holder in doit_epilogue after its one cycle has ended; a
\* lock taken is given up again as long as the VM lives.
C12_OneCycleAtATime ==
    [][/\ Cardinality({t \in Mutators : pc[t] \in {"queued", "unlock"}}) <= 1
       /\ \A t \in Mutators : (Heap_lock = t) <=> (pc[t] \in {"queued", "unlock"})
       /\ phase # "Idle" => (Heap_lock # 0 /\ pc[Heap_lock] = "queued")
       /\ Heap_lock' # Heap_lock =>
             \/ /\ Heap_lock = 0
                /\ pc[Heap_lock'] = "lock"
                /\ cycles[Heap_lock'] = 0
                /\ phase = "Idle"
             \/ /\ Heap_lock' = 0
                /\ pc[Heap_lock] = "unlock"
                /\ cycles[Heap_lock] = 1
                /\ phase = "Idle"]_vars
    /\ \A t \in Mutators :
          (Heap_lock = t) ~> (Heap_lock = 0 \/ vm # "running")

\* Two threads asked for a collection: one has run its cycle and still holds
\* Heap_lock, the other waits for the lock.
C12_Witness ==
    \E t, u \in Mutators :
        /\ pc[t] = "unlock"
        /\ Heap_lock = t
        /\ pc[u] = "lock"

\* C13: configuration correction.  For every configured pair, when
\* MSweepArguments::initialize has returned the VM goes on (no fatal error)
\* with MSweepMaxTLABSize >= MinTLABSize; a value that was below MinTLABSize
\* is now exactly MinTLABSize and the warning was logged; any other value is
\* as configured; MinTLABSize itself is untouched.
C13_ConfigurationCorrected ==
    /\ vm \in {"starting", "configured"}
    /\ vm = "configured" =>
          /\ args.MSweepMaxTLABSize >= args.MinTLABSize
          /\ args.MinTLABSize \in ConfiguredMinTLABSizes
          /\ IF args.configured < args.MinTLABSize
             THEN args.MSweepMaxTLABSize = args.MinTLABSize /\ args.warned
             ELSE args.MSweepMaxTLABSize = args.configured

\* initialize has corrected a value that lay below MinTLABSize.
C13_Witness ==
    /\ vm = "configured"
    /\ args.configured < args.MinTLABSize
    /\ args.configured > 0
    /\ args.MSweepMaxTLABSize = args.MinTLABSize
    /\ args.warned

\* The phases of a cycle after prologue has returned.
AfterPrologue == {"MarkRoots", "MarkLoop", "Sweep", "Epilogue"}

\* C14: cycle state machine.  The collector moves only from Idle to
\* Prologue, to Mark (its root scan, then its loop), to Sweep, to Epilogue
\* and back to Idle, and a cycle that has started is never cut short: the
\* VM does not fault inside it.
C14_CycleStateMachine ==
    [][/\ phase' # phase =>
             <<phase, phase'>> \in { <<"Idle", "Prologue">>,
                                     <<"Prologue", "MarkRoots">>,
                                     <<"MarkRoots", "MarkLoop">>,
                                     <<"MarkLoop", "Sweep">>,
                                     <<"Sweep", "Epilogue">>,
                                     <<"Epilogue", "Idle">> }
       /\ phase # "Idle" => vm' = "running"]_vars

\* The part of a sequence that a step has appended.
Appended(old, new) == SubSeq(new, Len(old) + 1, Len(new))

\* C15: mark result.  When mark() has returned from a start on a committed,
\* all-clear live bitmap, the objects whose bit is set are exactly the
\* objects reachable from the roots through object references.
C15_MarkResult ==
    (phase = "Sweep" /\ bitmap_committed /\ mark_start = {}) =>
        {a \in DOMAIN objs : a \in mark_bits} = Reachable(objs, roots)

\* mark() has returned on a graph with a cycle, one object of which is
\* reached through a reference only.
C15_Witness ==
    /\ phase = "Sweep"
    /\ bitmap_committed
    /\ mark_start = {}
    /\ \E a, b \in DOMAIN objs :
           /\ a # b
           /\ roots = {a}
           /\ objs[a].ref = b
           /\ objs[b].ref = a
           /\ mark_bits = {a, b}

\* C16: mark idempotence and termination.  Within one mark phase no object
\* is pushed twice; an object is pushed exactly when its bit goes from unset
\* to set; the stack is empty outside the phase, the phase ends only with
\* the stack empty and, with the stack empty, does nothing but end; and a
\* mark phase that has begun comes to its end.
C16_MarkIdempotence ==
    /\ [][LET new == Appended(pushes, pushes')
          IN /\ \A i, j \in 1..Len(pushes') : i # j => pushes'[i] # pushes'[j]
             /\ {new[i] : i \in 1..Len(new)} = mark_bits' \ mark_bits
             /\ phase \notin {"MarkRoots", "MarkLoop"} => stack = <<>>
             /\ (phase = "MarkLoop" /\ phase' # "MarkLoop") => stack = <<>>
             /\ (phase = "MarkLoop" /\ stack = <<>>) => phase' = "Sweep"]_vars
    /\ (phase = "MarkRoots") ~> (phase \notin {"MarkRoots", "MarkLoop"} \/ vm # "running")

\* The mark loop has run dry on a graph with a cycle in which an object is
\* met twice, as a root and through a reference: two pushes, no more.
C16_Witness ==
    /\ phase = "MarkLoop"
    /\ stack = <<>>
    /\ Len(pushes) = 2
    /\ \E a, b \in DOMAIN objs :
           /\ a # b
           /\ roots = {a, b}
           /\ objs[a].ref = b
           /\ objs[b].ref = b

\* C17: all-clear start.  When mark() begins, no bit of the live bitmap is
\* set, whatever the earlier commit and uncommit calls returned.
C17_AllClearStart ==
    phase = "MarkRoots" => mark_bits = {}

\* C18 as stated: whenever no cycle is in progress the storage of the live
\* bitmap is uncommitted.
C18_UncommittedWhenIdle ==
    phase = "Idle" => ~bitmap_committed

\* C18, amended: whenever no cycle is in progress the storage of the live
\* bitmap is uncommitted, unless os::uncommit_memory failed in the last
\* epilogue; the storage becomes committed only in prologue and uncommitted
\* only in epilogue.
C18_BitmapLifecycle ==
    [][/\ (phase = "Idle" /\ bitmap_committed) => os_res.uncommit = "failed"
       /\ (phase' = "Idle" /\ bitmap_committed') => os_res'.uncommit = "failed"
       /\ (bitmap_committed' /\ ~bitmap_committed) => phase = "Prologue"
       /\ (bitmap_committed /\ ~bitmap_committed') => phase = "Epilogue"]_vars

\* Between cycles, after a cycle that committed the bitmap, marked an
\* object and gave the storage back.
C18_Witness ==
    /\ phase = "Idle"
    /\ os_res = [commit |-> "ok", uncommit |-> "ok"]
    /\ ~bitmap_committed
    /\ roots \cap DOMAIN objs # {}

\* C19: TLAB retirement.  In every cycle ensure_parsability has run when
\* prologue has returned, whether the commit succeeded or not.
C19_TlabsRetiredBeforeMark ==
    phase \in AfterPrologue => parsable

\* C20: soft bitmap failures.  A failed commit and a failed uncommit are
\* each logged; after either the VM does not fault, the cycle goes through
\* its remaining phases, and the requesting thread makes its one retry.
C20_SoftBitmapFailures ==
    /\ (phase \in AfterPrologue /\ os_res.commit = "failed") =>
           /\ "Could not commit native memory for marking bitmap" \in gc_log
           /\ vm = "running"
    /\ os_res.uncommit = "failed" =>
           /\ "Could not uncommit native memory for marking bitmap" \in gc_log
           /\ vm = "running"
    /\ \A t \in Mutators :
           (pc[t] \in {"ret", "oom"} /\ cycles[t] = 1) => attempts[t] = 2

\* C21: sweep frame.  The sweep leaves every bit of the live bitmap as it
\* was and every marked object an unchanged object of the space; the free
\* list it leaves is the old one followed by one chunk for each object whose
\* bit is unset, at the object's address and of adjust_chunk_size(its size)
\* words, and by nothing else.
C21_SweepFrame ==
    [][(phase = "Sweep" /\ phase' = "Epilogue") =>
          LET new == Appended(free_list, free_list')
              unmarked == DOMAIN objs \ mark_bits
          IN /\ mark_bits' = mark_bits
             /\ bitmap_committed' = bitmap_committed
             /\ \A a \in DOMAIN objs \cap mark_bits :
                    a \in DOMAIN objs' /\ objs'[a] = objs[a]
             /\ SubSeq(free_list', 1, Len(free_list)) = free_list
             /\ Len(new) = Cardinality(unmarked)
             /\ \A a \in unmarked :
                    \E i \in 1..Len(new) :
                        new[i] = [start |-> a,
                                  size |-> adjust_chunk_size(objs[a].size)]
             /\ \A i \in 1..Len(new) : new[i].start \in unmarked]_vars

\* A sweep has kept a marked object and turned the unmarked one, smaller
\* than a chunk, into a chunk of the smallest size at its address.
C21_Witness ==
    /\ phase = "Epilogue"
    /\ mark_bits \cap DOMAIN objs # {}
    /\ Len(free_list) = Len(cyc_free) + 1
    /\ DOMAIN cyc_objs \ DOMAIN objs # {}
    /\ \A a \in DOMAIN cyc_objs \ DOMAIN objs :
           free_list[Len(free_list)] = [start |-> a, size |-> MinChunkSize]

\* C24: TLAB result on failure.  During a call of allocate_new_tlab the
\* caller's *actual_size changes only in the step that makes the call return
\* an address, and then to the clamped and aligned size asked of the heap;
\* so a call that returns NULL leaves in it the value it had before.
C24_ActualSizeOnlyOnSuccess ==
    [][\A t \in Mutators :
          /\ actual_size'[t] # actual_size[t] =>
                /\ req[t].kind = "tlab"
                /\ pc'[t] = "ret"
                /\ res'[t] # NULL
                /\ actual_size'[t] = req[t].size
                /\ req[t].size =
                      align_up(clamp(req[t].requested, req[t].min, _max_tlab_size),
                               MinObjAlignment)
          /\ (req[t].kind = "tlab" /\ pc'[t] = "ret" /\ pc[t] # "ret"
                 /\ res'[t] # NULL) => actual_size'[t] = req[t].size]_vars

\* A call of allocate_new_tlab has returned NULL after its cycle and retry,
\* and *actual_size still holds the size an earlier call granted, which is
\* not the size this call asked for.
C24_Witness ==
    \E t \in Mutators :
        /\ req[t].kind = "tlab"
        /\ pc[t] = "ret"
        /\ res[t] = NULL
        /\ attempts[t] = 2
        /\ actual_size[t] # 0
        /\ actual_size[t] # req[t].size

\* C22: allocation-path exclusion.  At most one mutator is inside the
\* free-list space's allocate at any moment, and two allocation calls never
\* return overlapping address ranges.
C22_AllocationExclusion ==
    /\ Cardinality({t \in Mutators : pc[t] = "inside"}) <= 1
    /\ \A t, u \in Mutators :
           (t # u /\ pc[t] = "ret" /\ pc[u] = "ret"
              /\ res[t] # NULL /\ res[u] # NULL) =>
               Extent(res[t], adjust_chunk_size(req[t].size))
                 \cap Extent(res[u], adjust_chunk_size(req[u].size)) = {}

\* The request of thread t has failed its first attempt and has had no
\* cycle yet, and the operation the VM thread runs is its own.
OwnCycle(t) ==
    /\ pc[t] = "queued"
    /\ Heap_lock = t
    /\ first_res[t] = NULL
    /\ attempts[t] = 1
    /\ cycles[t] = 0

\* C23: one cycle per failed request.  Every cycle that starts and every
\* cycle that ends is the cycle of exactly one request that failed its first
\* attempt and has had no cycle; a request that failed its first attempt
\* returns only after one cycle of its own and one retry; and such a request
\* does get there as long as the VM lives.
C23_OneCyclePerFailedRequest ==
    /\ [][/\ (phase = "Idle" /\ phase' = "Prologue") =>
                 \E t \in Mutators : OwnCycle(t)
          /\ (phase = "Epilogue" /\ phase' = "Idle") =>
                 \E t \in Mutators :
                     /\ OwnCycle(t)
                     /\ cycles' = [cycles EXCEPT ![t] = 1]
                     /\ attempts' = attempts
          /\ \A t \in Mutators :
                 /\ cycles'[t] > cycles[t] => (phase = "Epilogue" /\ OwnCycle(t))
                 /\ (pc'[t] = "ret" /\ pc[t] # "ret" /\ first_res'[t] = NULL) =>
                        /\ pc[t] = "retry"
                        /\ attempts[t] = 1 /\ attempts'[t] = 2
                        /\ cycles'[t] = 1]_vars
    /\ \A t \in Mutators :
          (pc[t] = "lock") ~>
              ((pc[t] = "ret" /\ attempts[t] = 2 /\ cycles[t] = 1) \/ vm # "running")

\* Two requests failed before any cycle ran; each has had its own cycle and
\* its own retry.
C23_Witness ==
    \E t, u \in Mutators :
        /\ t # u
        /\ pc[t] = "oom" /\ first_res[t] = NULL
        /\ attempts[t] = 2 /\ cycles[t] = 1
        /\ pc[u] = "ret" /\ first_res[u] = NULL
        /\ attempts[u] = 2 /\ cycles[u] = 1

====
